---- MODULE Spec2Model ----
(***************************************************************************)
(* Typed transaction envelopes of eth_utils (model.py): BlobTx (type 3),   *)
(* SetCodeTx (type 4) and SetCodeAuthorization, with the RLP serialisation *)
(* they are built on.                                                      *)
(*                                                                         *)
(* Byte strings are sequences over 0..255.  A Keccak-256 digest is kept    *)
(* symbolic: it is a one-element sequence holding the block                *)
(* [keccak256 |-> pre-image], i.e. an ideal (injective) hash.              *)
(***************************************************************************)
EXTENDS Integers, Sequences, FiniteSets, TLC

\* ---------------------------------------------------------------- bounds
MaxAuthCalls == 2
MaxCalls == 3

\* ------------------------------------------------------- python values
\* A Python value as pyrlp sees it: its runtime type and its content.
PyInt(n) == [t |-> "int", v |-> n]
PyBytes(b) == [t |-> "bytes", v |-> b]
PyStr(s) == [t |-> "str", v |-> s]
PyList(xs) == [t |-> "list", v |-> xs]

\* ------------------------------------------------------------------ rlp
RECURSIVE int_to_big_endian(_)
int_to_big_endian(n) ==
    IF n = 0 THEN << >> ELSE int_to_big_endian(n \div 256) \o << n % 256 >>

RECURSIVE utf8(_)
utf8(s) ==
    IF s = << >> THEN << >>
    ELSE (IF Head(s) < 128 THEN << Head(s) >>
          ELSE << 192 + (Head(s) \div 64), 128 + (Head(s) % 64) >>) \o utf8(Tail(s))

length_prefix(length, offset) ==
    IF length < 56 THEN << offset + length >>
    ELSE LET length_string == int_to_big_endian(length)
         IN  << offset + 55 + Len(length_string) >> \o length_string

rlp_bytes(b) ==
    IF Len(b) = 1 /\ b[1] < 128 THEN b ELSE length_prefix(Len(b), 128) \o b

RECURSIVE rlp_encode(_)
RECURSIVE rlp_concat(_)
rlp_concat(xs) ==
    IF xs = << >> THEN << >> ELSE rlp_encode(Head(xs)) \o rlp_concat(Tail(xs))

rlp_encode(x) ==
    CASE x.t = "int" -> rlp_bytes(int_to_big_endian(x.v))
      [] x.t = "bytes" -> rlp_bytes(x.v)
      [] x.t = "str" -> rlp_bytes(utf8(x.v))
      [] x.t = "list" -> LET payload == rlp_concat(x.v)
                         IN  length_prefix(Len(payload), 192) \o payload

keccak(pre) == << [keccak256 |-> pre] >>

\* ------------------------------------------------------------ constants
BLOB_TX_TYPE == 3
SET_CODE_TX_TYPE == 4
AUTH_MAGIC == 5
AUTH_V_PLACEHOLDER == 1

ZERO_ADDRESS == [i \in 1..20 |-> 0]

\* ---------------------------------------------------------------- state
VARIABLES
    auth_calls,   \* every SetCodeAuthorization(...) call made so far, in order
    tx,           \* << >>, or << the envelope object under construction >>
    hash_log,     \* every tx.hash() call: the object before, the value returned, the object after
    enc_log,      \* every tx.encode_with_sig(v, r, s) call
    mutations,    \* number of caller assignments to the envelope's attributes
    ctor,         \* << >>, or << the BlobTx(...) / SetCodeTx(...) call as the caller made it >>
    base_call,    \* << >>, or << a signing method looked up on a BasetTxParams object >>
    eth_v_call,   \* << >>, or << a to_eth_v(v_raw, chain_id) call >>
    blob_call,    \* << >>, or << a prepare_blob_data(input_data) call >>
    vh_call,      \* << >>, or << a kzg_to_versioned_hash(kzg_commitment) call >>
    blob_module,  \* the execution of blob.py's module-level statements (its import)
    client_calls, \* the calls made on one ec.Client, each with its position and locals
    node,         \* the Ethereum node behind the client: pending count and what was sent to it
    abi_call      \* << >>, or << a flatten_type_def / get_type_def_from_encode call >>

\* Calls made on the envelope since it was constructed.
calls == Len(hash_log) + Len(enc_log) + mutations

env_vars == << auth_calls, tx, hash_log, enc_log, mutations, ctor, base_call >>
keys_vars == << eth_v_call >>
blob_vars == << blob_call, vh_call, blob_module >>
client_vars == << client_calls, node >>
abi_vars == << abi_call >>
vars == << env_vars, keys_vars, blob_vars, client_vars, abi_vars >>

\* ----------------------------------------------------- model.py objects
BasetTxParams(chain_id, nonce, gas, gas_tip_cap, gas_fee_cap, to, value, data) ==
    [chain_id |-> chain_id, nonce |-> nonce, gas |-> gas, gas_tip |-> gas_tip_cap,
     gas_fee |-> gas_fee_cap, to |-> to, value |-> value, data |-> data]

AccessTuple(addr, storage_keys) == [storage_keys |-> storage_keys, addr |-> addr]

\* Mutant of AccessTuple.encode: the storage keys come out in reverse order.
AccessTuple_encode_reversed(self) ==
    PyList(<< PyBytes(self.addr),
              PyList([i \in 1..Len(self.storage_keys) |->
                         PyBytes(self.storage_keys[Len(self.storage_keys) + 1 - i])]) >>)

AccessTuple_encode(self) ==
    PyList(<< PyBytes(self.addr),
              PyList([i \in 1..Len(self.storage_keys) |-> PyBytes(self.storage_keys[i])]) >>)

BlobTx(tx_params, acc_list, blob_fee_cap, blob_hashes) ==
    [class |-> "BlobTx", tx_params |-> tx_params, acc_list |-> acc_list,
     blob_fee_cap |-> blob_fee_cap, blob_hashes |-> blob_hashes]

SetCodeTx(tx_params, acc_list, set_code_auth_list) ==
    [class |-> "SetCodeTx", tx_params |-> tx_params, acc_list |-> acc_list,
     set_code_auth_list |-> set_code_auth_list]

\* blob_hashes is a Python list of bytes objects.
bytes_list(hs) == PyList([i \in 1..Len(hs) |-> PyBytes(hs[i])])

\* Mutant of BlobTx.hash: the gas limit is placed before the two fee caps
\* (the legacy field order).
BlobTx_hash_gas_first(self) ==
    LET encoded == << BLOB_TX_TYPE >> \o rlp_encode(PyList(
            << PyInt(self.tx_params.chain_id), PyInt(self.tx_params.nonce),
               PyInt(self.tx_params.gas), PyInt(self.tx_params.gas_tip),
               PyInt(self.tx_params.gas_fee), PyBytes(self.tx_params.to),
               PyInt(self.tx_params.value), PyBytes(self.tx_params.data),
               PyList(self.acc_list),
               PyInt(self.blob_fee_cap), bytes_list(self.blob_hashes) >>))
    IN  [ret |-> keccak(encoded), self |-> self]

\* Mutant of BlobTx.hash: the call advances the nonce of the envelope it hashed.
BlobTx_hash_bumps_nonce(self) ==
    LET encoded == << BLOB_TX_TYPE >> \o rlp_encode(PyList(
            << PyInt(self.tx_params.chain_id), PyInt(self.tx_params.nonce),
               PyInt(self.tx_params.gas_tip), PyInt(self.tx_params.gas_fee),
               PyInt(self.tx_params.gas), PyBytes(self.tx_params.to),
               PyInt(self.tx_params.value), PyBytes(self.tx_params.data),
               PyList(self.acc_list),
               PyInt(self.blob_fee_cap), bytes_list(self.blob_hashes) >>))
    IN  [ret |-> keccak(encoded), self |-> [self EXCEPT !.tx_params.nonce = @ + 1]]

\* BlobTx.hash: the value returned and the object as the call leaves it.
BlobTx_hash(self) ==
    LET encoded == << BLOB_TX_TYPE >> \o rlp_encode(PyList(
            << PyInt(self.tx_params.chain_id), PyInt(self.tx_params.nonce),
               PyInt(self.tx_params.gas_tip), PyInt(self.tx_params.gas_fee),
               PyInt(self.tx_params.gas), PyBytes(self.tx_params.to),
               PyInt(self.tx_params.value), PyBytes(self.tx_params.data),
               PyList(self.acc_list),
               PyInt(self.blob_fee_cap), bytes_list(self.blob_hashes) >>))
    IN  [ret |-> keccak(encoded), self |-> self]

\* Mutant of BlobTx.encode_with_sig: a fixed parity 1 is written in place of v.
BlobTx_encode_with_sig_fixed_v(self, v, r, s) ==
    << BLOB_TX_TYPE >> \o rlp_encode(PyList(
            << PyInt(self.tx_params.chain_id), PyInt(self.tx_params.nonce),
               PyInt(self.tx_params.gas_tip), PyInt(self.tx_params.gas_fee),
               PyInt(self.tx_params.gas), PyBytes(self.tx_params.to),
               PyInt(self.tx_params.value), PyBytes(self.tx_params.data),
               PyList(self.acc_list),
               PyInt(self.blob_fee_cap), bytes_list(self.blob_hashes),
               PyInt(1), PyInt(r), PyInt(s) >>))

BlobTx_encode_with_sig(self, v, r, s) ==
    LET encoded == << BLOB_TX_TYPE >> \o rlp_encode(PyList(
            << PyInt(self.tx_params.chain_id), PyInt(self.tx_params.nonce),
               PyInt(self.tx_params.gas_tip), PyInt(self.tx_params.gas_fee),
               PyInt(self.tx_params.gas), PyBytes(self.tx_params.to),
               PyInt(self.tx_params.value), PyBytes(self.tx_params.data),
               PyList(self.acc_list),
               PyInt(self.blob_fee_cap), bytes_list(self.blob_hashes),
               PyInt(v), PyInt(r), PyInt(s) >>))
    IN  encoded

\* Mutant of SetCodeTx.hash: the authorization list is left out of the hashed list.
SetCodeTx_hash_no_auth_list(self) ==
    LET encoded == << SET_CODE_TX_TYPE >> \o rlp_encode(PyList(
            << PyInt(self.tx_params.chain_id), PyInt(self.tx_params.nonce),
               PyInt(self.tx_params.gas_tip), PyInt(self.tx_params.gas_fee),
               PyInt(self.tx_params.gas), PyBytes(self.tx_params.to),
               PyInt(self.tx_params.value), PyBytes(self.tx_params.data),
               PyList(self.acc_list) >>))
    IN  [ret |-> keccak(encoded), self |-> self]

\* Mutant of SetCodeTx.hash: the tag is prepended to the digest instead of to
\* the hashed bytes.
SetCodeTx_hash_tag_outside(self) ==
    LET encoded == rlp_encode(PyList(
            << PyInt(self.tx_params.chain_id), PyInt(self.tx_params.nonce),
               PyInt(self.tx_params.gas_tip), PyInt(self.tx_params.gas_fee),
               PyInt(self.tx_params.gas), PyBytes(self.tx_params.to),
               PyInt(self.tx_params.value), PyBytes(self.tx_params.data),
               PyList(self.acc_list),
               PyList(self.set_code_auth_list) >>))
    IN  [ret |-> << SET_CODE_TX_TYPE >> \o keccak(encoded), self |-> self]

SetCodeTx_hash(self) ==
    LET encoded == << SET_CODE_TX_TYPE >> \o rlp_encode(PyList(
            << PyInt(self.tx_params.chain_id), PyInt(self.tx_params.nonce),
               PyInt(self.tx_params.gas_tip), PyInt(self.tx_params.gas_fee),
               PyInt(self.tx_params.gas), PyBytes(self.tx_params.to),
               PyInt(self.tx_params.value), PyBytes(self.tx_params.data),
               PyList(self.acc_list),
               PyList(self.set_code_auth_list) >>))
    IN  [ret |-> keccak(encoded), self |-> self]

SetCodeTx_encode_with_sig(self, v, r, s) ==
    << SET_CODE_TX_TYPE >> \o rlp_encode(PyList(
            << PyInt(self.tx_params.chain_id), PyInt(self.tx_params.nonce),
               PyInt(self.tx_params.gas_tip), PyInt(self.tx_params.gas_fee),
               PyInt(self.tx_params.gas), PyBytes(self.tx_params.to),
               PyInt(self.tx_params.value), PyBytes(self.tx_params.data),
               PyList(self.acc_list),
               PyList(self.set_code_auth_list),
               PyInt(v), PyInt(r), PyInt(s) >>))

\* ------------------------------------------------ SetCodeAuthorization
\* What one call of the injected signing function does: it returns a signed
\* message (v, r, s) or raises.
SignedMessage(v, r, s) == [v |-> v, r |-> r, s |-> s]
Returns(m) == [ret |-> << m >>, exc |-> << >>]
Raises(e) == [ret |-> << >>, exc |-> << e >>]

\* Mutant of SetCodeAuthorization.__init__: the digest is taken under the
\* SetCode transaction tag.
SetCodeAuthorization_init_tx_tag(chain_id, addr, nonce, signing_function) ==
    LET encoded == rlp_encode(PyList(<< PyInt(chain_id), PyBytes(addr), PyInt(nonce) >>))
        hashed == keccak(<< SET_CODE_TX_TYPE >> \o encoded)
        signed_msg == signing_function
    IN  [chain_id |-> chain_id, addr |-> addr, nonce |-> nonce,
         signer |-> signing_function,
         signer_calls |-> << << hashed >> >>,
         obj |-> IF signed_msg.exc = << >>
                 THEN << [chain_id |-> chain_id, addr |-> addr, nonce |-> nonce,
                          r |-> signed_msg.ret[1].r, s |-> signed_msg.ret[1].s,
                          v |-> signed_msg.ret[1].v] >>
                 ELSE << >>,
         exc |-> signed_msg.exc]

\* Mutant of SetCodeAuthorization.__init__: a failed signing call is tried once more.
SetCodeAuthorization_init_retry(chain_id, addr, nonce, signing_function) ==
    LET encoded == rlp_encode(PyList(<< PyInt(chain_id), PyBytes(addr), PyInt(nonce) >>))
        hashed == keccak(<< AUTH_MAGIC >> \o encoded)
        signed_msg == signing_function
    IN  [chain_id |-> chain_id, addr |-> addr, nonce |-> nonce,
         signer |-> signing_function,
         signer_calls |-> IF signed_msg.exc = << >> THEN << << hashed >> >>
                          ELSE << << hashed >>, << hashed >> >>,
         obj |-> IF signed_msg.exc = << >>
                 THEN << [chain_id |-> chain_id, addr |-> addr, nonce |-> nonce,
                          r |-> signed_msg.ret[1].r, s |-> signed_msg.ret[1].s,
                          v |-> signed_msg.ret[1].v] >>
                 ELSE << >>,
         exc |-> signed_msg.exc]

\* Mutant of SetCodeAuthorization.__init__: the nonce is left out of the signed list.
SetCodeAuthorization_init_no_nonce(chain_id, addr, nonce, signing_function) ==
    LET encoded == rlp_encode(PyList(<< PyInt(chain_id), PyBytes(addr) >>))
        hashed == keccak(<< AUTH_MAGIC >> \o encoded)
        signed_msg == signing_function
    IN  [chain_id |-> chain_id, addr |-> addr, nonce |-> nonce,
         signer |-> signing_function,
         signer_calls |-> << << hashed >> >>,
         obj |-> IF signed_msg.exc = << >>
                 THEN << [chain_id |-> chain_id, addr |-> addr, nonce |-> nonce,
                          r |-> signed_msg.ret[1].r, s |-> signed_msg.ret[1].s,
                          v |-> signed_msg.ret[1].v] >>
                 ELSE << >>,
         exc |-> signed_msg.exc]

\* SetCodeAuthorization.__init__ run against a signing function that behaves
\* as signing_function: the arguments of every call it made to the signing
\* function, and the object built (obj) or the exception that left it (exc).
SetCodeAuthorization_init(chain_id, addr, nonce, signing_function) ==
    LET encoded == rlp_encode(PyList(<< PyInt(chain_id), PyBytes(addr), PyInt(nonce) >>))
        hashed == keccak(<< AUTH_MAGIC >> \o encoded)
        signed_msg == signing_function
    IN  [chain_id |-> chain_id, addr |-> addr, nonce |-> nonce,
         signer |-> signing_function,
         signer_calls |-> << << hashed >> >>,
         obj |-> IF signed_msg.exc = << >>
                 THEN << [chain_id |-> chain_id, addr |-> addr, nonce |-> nonce,
                          r |-> signed_msg.ret[1].r, s |-> signed_msg.ret[1].s,
                          v |-> signed_msg.ret[1].v] >>
                 ELSE << >>,
         exc |-> signed_msg.exc]

SetCodeAuthorization_encode(self) ==
    PyList(<< PyInt(self.chain_id), PyBytes(self.addr), PyInt(self.nonce),
              PyStr(<< AUTH_V_PLACEHOLDER >>), PyInt(self.r), PyInt(self.s) >>)

\* ---------------------------------------------------------------- keys.py
CHAIN_ID_OFFSET == 35
V_OFFSET == 27

\* An optional argument: << >> is None, << x >> is the value x.
None == << >>
Some(x) == << x >>

\* Mutant of to_eth_v: without a chain id the offset is added.
to_eth_v_adds_offset(v_raw, chain_id) ==
    IF chain_id = << >>
    THEN v_raw + V_OFFSET
    ELSE v_raw + CHAIN_ID_OFFSET + 2 * chain_id[1]

\* Mutant of to_eth_v: the chain id is added once.
to_eth_v_chain_id_once(v_raw, chain_id) ==
    IF chain_id = << >>
    THEN v_raw - V_OFFSET
    ELSE v_raw + CHAIN_ID_OFFSET + chain_id[1]

to_eth_v(v_raw, chain_id) ==
    IF chain_id = None
    THEN v_raw - V_OFFSET
    ELSE v_raw + CHAIN_ID_OFFSET + 2 * chain_id[1]

\* ---------------------------------------------------------------- blob.py
BYTES_PER_FIELD_ELEMENT == 32
FIELD_ELEMENTS_PER_BLOB == 4096
BLOB_FULL_SIZE_BYTES == FIELD_ELEMENTS_PER_BLOB * BYTES_PER_FIELD_ELEMENT
VERSIONED_HASH_VERSION_KZG == 1

\* A Python str is kept as a sequence of runs: Run(ch, n) is the code point ch
\* repeated n times.
Run(ch, n) == [ch |-> ch, n |-> n]

\* str.encode('utf-8'), run by run.
RECURSIVE str_encode(_)
str_encode(s) ==
    IF s = << >> THEN << >>
    ELSE LET one == utf8(<< Head(s).ch >>)
             k == Len(one)
         IN  [i \in 1..(k * Head(s).n) |-> one[((i - 1) % k) + 1]] \o str_encode(Tail(s))

\* len(input_data): the number of characters.
RECURSIVE str_len(_)
str_len(s) == IF s = << >> THEN 0 ELSE Head(s).n + str_len(Tail(s))

\* b'\x00' * count (empty when count <= 0)
zero_bytes(count) == [i \in 1..count |-> 0]

\* Mutant of prepare_blob_data: the zero bytes are put in front of the data.
prepare_blob_data_pads_left(input_data) ==
    LET encoded_data == str_encode(input_data)
    IN  IF Len(encoded_data) > BLOB_FULL_SIZE_BYTES
        THEN [ret |-> << >>, exc |-> << "ValueError" >>]
        ELSE [ret |-> << zero_bytes(BLOB_FULL_SIZE_BYTES - Len(encoded_data)) \o encoded_data >>,
              exc |-> << >>]

\* Mutant of prepare_blob_data: the character count is compared with the limit.
prepare_blob_data_counts_chars(input_data) ==
    LET encoded_data == str_encode(input_data)
    IN  IF str_len(input_data) > BLOB_FULL_SIZE_BYTES
        THEN [ret |-> << >>, exc |-> << "ValueError" >>]
        ELSE [ret |-> << encoded_data \o zero_bytes(BLOB_FULL_SIZE_BYTES - Len(encoded_data)) >>,
              exc |-> << >>]

prepare_blob_data(input_data) ==
    LET encoded_data == str_encode(input_data)
    IN  IF Len(encoded_data) > BLOB_FULL_SIZE_BYTES
        THEN [ret |-> << >>, exc |-> << "ValueError" >>]
        ELSE [ret |-> << encoded_data \o zero_bytes(BLOB_FULL_SIZE_BYTES - Len(encoded_data)) >>,
              exc |-> << >>]

\* hashlib.sha256(m).digest(): 32 bytes, byte i of the digest of m kept symbolic.
sha256(m) == [i \in 1..32 |-> [sha256 |-> m, byte |-> i - 1]]

\* Mutant of kzg_to_versioned_hash: the tag is put in front of the whole digest.
kzg_to_versioned_hash_keeps_digest(kzg_commitment) ==
    LET sha256_hash == sha256(kzg_commitment)
    IN  << VERSIONED_HASH_VERSION_KZG >> \o sha256_hash

kzg_to_versioned_hash(kzg_commitment) ==
    LET sha256_hash == sha256(kzg_commitment)
    IN  << VERSIONED_HASH_VERSION_KZG >> \o SubSeq(sha256_hash, 2, Len(sha256_hash))

\* The module-level statements of blob.py in order; an exception that leaves a
\* statement ends the import ("failed").
module_steps ==
    << "download", "load", "prepare_blob_data", "blob_to_kzg_commitment", "compute_blob_kzg_proof",
       "verify_blob_kzg_proof", "imported" >>

\* Mutant of module_next: an exception is swallowed and the import goes on.
module_next_swallows(pc, exc) ==
    LET k == CHOOSE i \in 1..Len(module_steps) : module_steps[i] = pc
    IN  module_steps[k + 1]

module_next(pc, exc) ==
    IF exc # << >> THEN "failed"
    ELSE LET k == CHOOSE i \in 1..Len(module_steps) : module_steps[i] = pc
         IN  module_steps[k + 1]

\* requests.get(url).text: the body as served, or an exception of requests.
DownloadInputs ==
    { [ret |-> << "trusted_setup" >>, exc |-> << >>],
      [ret |-> << "404: Not Found" >>, exc |-> << >>],
      [ret |-> << >>, exc |-> << "ConnectionError" >>] }

\* ckzg.load_trusted_setup(file, 6): the settings object for a well-formed
\* parameter file, an exception for anything else.
load_trusted_setup(file) ==
    IF file = << "trusted_setup" >>
    THEN [ret |-> << [kzg_settings |-> file[1]] >>, exc |-> << >>]
    ELSE [ret |-> << >>, exc |-> << "RuntimeError" >>]

\* ------------------------------------------------- python call semantics
\* The names model.py defines, the keyword parameters BlobTx.__init__ accepts,
\* and the attributes a BasetTxParams instance has.
model_classes == { "BasetTxParams", "AccessTuple", "BlobTx", "SetCodeAuthorization", "SetCodeTx" }
BlobTx_init_params == { "tx_params", "acc_list", "blob_fee_cap", "blob_hashes" }
BasetTxParams_attrs ==
    { "__init__", "chain_id", "nonce", "gas", "gas_tip", "gas_fee", "to", "value", "data" }

\* BlobTx(**keywords): an unexpected keyword argument is a TypeError.
BlobTx_new(keywords, tx_params, acc_list, blob_fee_cap, blob_hashes) ==
    IF keywords \subseteq BlobTx_init_params
    THEN [obj |-> << BlobTx(tx_params, acc_list, blob_fee_cap, blob_hashes) >>, exc |-> << >>]
    ELSE [obj |-> << >>, exc |-> << "TypeError" >>]

\* Mutant of the attribute lookup: every name is found.
BasetTxParams_getattr_found(self, name) ==
    [self |-> self, attr |-> name, exc |-> << >>]

\* getattr(BasetTxParams instance, name)
BasetTxParams_getattr(self, name) ==
    [self |-> self, attr |-> name,
     exc |-> IF name \in BasetTxParams_attrs THEN << >> ELSE << "AttributeError" >>]

\* --------------------------------------------------------------- inputs
\* The values the callers (examples/blob_tx.py, examples/set_code_tx.py) feed in.
Address(k) == [i \in 1..20 |-> IF i = 20 THEN k ELSE 0]
StorageKey(k) == [i \in 1..32 |-> IF i = 32 THEN k ELSE 0]
VersionedHash(k) == [i \in 1..32 |-> IF i = 1 THEN 1 ELSE k]

TxParamsInputs ==
    { BasetTxParams(1337, 0, 800000, 8, 9, ZERO_ADDRESS, 0, << >>),
      BasetTxParams(1337, 0, 800000, 8, 9, Address(3), 5, << 171 >>) }
AccessTupleInputs ==
    { << >>,
      << AccessTuple(Address(1), << StorageKey(2), StorageKey(1), StorageKey(1) >>) >> }
BlobHashInputs ==
    { << VersionedHash(7) >>, << VersionedHash(9), VersionedHash(7), VersionedHash(9) >> }
SignerInputs == { Returns(SignedMessage(v, 11, 12)) : v \in {0, 1} } \cup { Raises("SignerError") }
\* signed = client.sign_hash(tx_hash): web3's unsafe_sign_hash returns v = 27 + parity.
ClientSignInputs == { SignedMessage(v, 21, 22) : v \in {27, 28} }
\* (keys.to_eth_v(signed.v), signed.r, signed.s)
SignatureInputs == { SignedMessage(to_eth_v(m.v, None), m.r, m.s) : m \in ClientSignInputs }

\* The authorization objects built so far, in order.
RECURSIVE built(_)
built(cs) ==
    IF cs = << >> THEN << >> ELSE Head(cs).obj \o built(Tail(cs))

\* An exception that left a call: the calling script does not catch it and
\* ends there.
script_ended ==
    \/ \E k \in 1..Len(auth_calls) : auth_calls[k].exc # << >>
    \/ ctor # << >> /\ ctor[1].exc # << >>
    \/ base_call # << >> /\ base_call[1].exc # << >>

\* -------------------------------------------------------------- actions
EnvInit ==
    /\ auth_calls = << >>
    /\ tx = << >>
    /\ hash_log = << >>
    /\ enc_log = << >>
    /\ mutations = 0
    /\ ctor = << >>
    /\ base_call = << >>

KeysIdle == eth_v_call = << >>
\* blob.py not yet imported: no file written, kzg_settings unbound, no ckzg call made.
ModuleStart ==
    [pc |-> "download", trusted_setup |-> << >>, kzg_settings |-> << >>, loads |-> 0,
     padded_blob_bytes |-> << >>, ckzg_calls |-> << >>, exc |-> << >>]

BlobIdle == blob_call = << >> /\ vh_call = << >> /\ blob_module = ModuleStart

\* No call made on the client yet; the account has sent nothing.
NodeStart == [count |-> 0, sent |-> << >>]
ClientIdle == client_calls = << >> /\ node = NodeStart
AbiIdle == abi_call = << >>

Init == EnvInit /\ KeysIdle /\ BlobIdle /\ ClientIdle /\ AbiIdle

\* SetCodeAuthorization(chain_id, addr, start_nonce + i + 1, signing_function), i = 0, 1, ...
NewAuthorization ==
    /\ tx = << >> /\ ~script_ended
    /\ Len(auth_calls) < MaxAuthCalls
    /\ \E f \in SignerInputs :
         auth_calls' = Append(auth_calls,
             SetCodeAuthorization_init(1337, Address(113), Len(auth_calls) + 1, f))
    /\ UNCHANGED << tx, hash_log, enc_log, mutations, ctor, base_call, keys_vars, blob_vars, client_vars, abi_vars >>

\* BlobTx(tx_params=..., acc_list=[AccessTuple(...).encode(), ...], blob_fee_cap=...,
\* blob_hashes=[...]), and the same call with sidecar=model.BlobSidecar(...) added
\* as examples/blob_tx.py makes it.
NewBlobTx ==
    /\ tx = << >> /\ ctor = << >> /\ ~script_ended
    /\ \E p \in TxParamsInputs, ats \in AccessTupleInputs, bh \in BlobHashInputs,
          sidecar \in BOOLEAN :
         LET al == [i \in 1..Len(ats) |-> AccessTuple_encode(ats[i])]
             keywords == BlobTx_init_params \cup (IF sidecar THEN { "sidecar" } ELSE { })
             res == IF sidecar /\ "BlobSidecar" \notin model_classes
                    THEN [obj |-> << >>, exc |-> << "AttributeError" >>]
                    ELSE BlobTx_new(keywords, p, al, 2, bh)
         IN  /\ tx' = res.obj
             /\ ctor' = << [class |-> "BlobTx", access |-> ats, blob_hashes |-> bh,
                            sidecar |-> sidecar, exc |-> res.exc] >>
    /\ UNCHANGED << auth_calls, hash_log, enc_log, mutations, base_call, keys_vars, blob_vars, client_vars, abi_vars >>

NewSetCodeTx ==
    /\ tx = << >> /\ ctor = << >> /\ ~script_ended
    /\ \E p \in TxParamsInputs, ats \in AccessTupleInputs :
         LET auths == built(auth_calls)
             al == [i \in 1..Len(ats) |-> AccessTuple_encode(ats[i])]
         IN  /\ tx' = << SetCodeTx(p, al,
                          [i \in 1..Len(auths) |-> SetCodeAuthorization_encode(auths[i])]) >>
             /\ ctor' = << [class |-> "SetCodeTx", access |-> ats, auths |-> auths,
                            sidecar |-> FALSE, exc |-> << >>] >>
    /\ UNCHANGED << auth_calls, hash_log, enc_log, mutations, base_call, keys_vars, blob_vars, client_vars, abi_vars >>

\* tx_params.hash() / tx_params.encode_with_sig on the bare parameter object.
BasetTxParamsSign ==
    /\ tx = << >> /\ ctor = << >> /\ base_call = << >> /\ auth_calls = << >>
    /\ \E p \in TxParamsInputs, name \in { "hash", "encode_with_sig" } :
         base_call' = << BasetTxParams_getattr(p, name) >>
    /\ UNCHANGED << auth_calls, tx, hash_log, enc_log, mutations, ctor, keys_vars, blob_vars, client_vars, abi_vars >>

HashCall(res) ==
    /\ calls < MaxCalls
    /\ hash_log' = Append(hash_log, [before |-> tx[1], ret |-> res.ret, after |-> res.self,
                                      mutations |-> mutations])
    /\ tx' = << res.self >>
    /\ UNCHANGED << auth_calls, enc_log, mutations, ctor, base_call, keys_vars, blob_vars, client_vars, abi_vars >>

BlobTxHash ==
    /\ tx # << >> /\ tx[1].class = "BlobTx"
    /\ HashCall(BlobTx_hash(tx[1]))

SetCodeTxHash ==
    /\ tx # << >> /\ tx[1].class = "SetCodeTx"
    /\ HashCall(SetCodeTx_hash(tx[1]))

EncodeCall(sig, out) ==
    /\ calls < MaxCalls
    /\ enc_log' = Append(enc_log, [self |-> tx[1], sig |-> sig, ret |-> out,
                                    hashes |-> Len(hash_log)])
    /\ UNCHANGED << auth_calls, tx, hash_log, mutations, ctor, base_call, keys_vars, blob_vars, client_vars, abi_vars >>

BlobTxEncodeWithSig ==
    /\ tx # << >> /\ tx[1].class = "BlobTx"
    /\ \E sig \in SignatureInputs :
         EncodeCall(sig, BlobTx_encode_with_sig(tx[1], sig.v, sig.r, sig.s))

SetCodeTxEncodeWithSig ==
    /\ tx # << >> /\ tx[1].class = "SetCodeTx"
    /\ \E sig \in SignatureInputs :
         EncodeCall(sig, SetCodeTx_encode_with_sig(tx[1], sig.v, sig.r, sig.s))

\* The envelope keeps the caller's tx_params object and lists by reference and
\* its attributes are plain assignable attributes: tx_params.nonce = ... and
\* acc_list.append(...) by the caller change the envelope.
CallerSetNonce ==
    /\ tx # << >>
    /\ calls < MaxCalls
    /\ tx' = << [tx[1] EXCEPT !.tx_params.nonce = @ + 1] >>
    /\ mutations' = mutations + 1
    /\ UNCHANGED << auth_calls, hash_log, enc_log, ctor, base_call, keys_vars, blob_vars, client_vars, abi_vars >>

CallerAppendAccList ==
    /\ tx # << >>
    /\ calls < MaxCalls
    /\ tx' = << [tx[1] EXCEPT !.acc_list =
                   Append(@, AccessTuple_encode(AccessTuple(Address(2), << >>)))] >>
    /\ mutations' = mutations + 1
    /\ UNCHANGED << auth_calls, hash_log, enc_log, ctor, base_call, keys_vars, blob_vars, client_vars, abi_vars >>

Next ==
    \/ NewAuthorization
    \/ NewBlobTx
    \/ NewSetCodeTx
    \/ BasetTxParamsSign
    \/ BlobTxHash
    \/ SetCodeTxHash
    \/ BlobTxEncodeWithSig
    \/ SetCodeTxEncodeWithSig
    \/ CallerSetNonce
    \/ CallerAppendAccList

Spec == Init /\ [][Next]_vars

\* ------------------------------------- model.py fed byte strings of any width
\* The same constructors and methods, with addresses of 19..21 bytes and
\* storage keys and versioned hashes of 31..33 bytes among the inputs.
Bytes(n, k) == [i \in 1..n |-> k]
AddressWidths == { 19, 20, 21 }
WordWidths == { 31, 32, 33 }

NewAuthorizationWidths ==
    /\ tx = << >> /\ ~script_ended
    /\ Len(auth_calls) < MaxAuthCalls
    /\ \E w \in AddressWidths :
         auth_calls' = Append(auth_calls,
             SetCodeAuthorization_init(1337, Bytes(w, 113), Len(auth_calls) + 1,
                                       Returns(SignedMessage(0, 11, 12))))
    /\ UNCHANGED << tx, hash_log, enc_log, mutations, ctor, base_call, keys_vars, blob_vars, client_vars, abi_vars >>

NewBlobTxWidths ==
    /\ tx = << >> /\ ctor = << >> /\ auth_calls = << >>
    /\ \E wto \in AddressWidths, wa \in AddressWidths, wk \in WordWidths, wh \in WordWidths :
         LET p == BasetTxParams(1337, 0, 800000, 8, 9, Bytes(wto, 3), 0, << >>)
             ats == << AccessTuple(Bytes(wa, 1), << Bytes(wk, 2) >>) >>
             bh == << Bytes(wh, 7) >>
             res == BlobTx_new(BlobTx_init_params, p,
                               [i \in 1..Len(ats) |-> AccessTuple_encode(ats[i])], 2, bh)
         IN  /\ tx' = res.obj
             /\ ctor' = << [class |-> "BlobTx", access |-> ats, blob_hashes |-> bh,
                            sidecar |-> FALSE, exc |-> res.exc] >>
    /\ UNCHANGED << auth_calls, hash_log, enc_log, mutations, base_call, keys_vars, blob_vars, client_vars, abi_vars >>

WidthsNext ==
    \/ NewAuthorizationWidths
    \/ NewBlobTxWidths
    \/ NewSetCodeTx
    \/ BlobTxHash
    \/ SetCodeTxHash
    \/ BlobTxEncodeWithSig
    \/ SetCodeTxEncodeWithSig

SpecWidths == Init /\ [][WidthsNext]_vars

\* ------------------------------------------------- keys.to_eth_v on its own
MaxChainId == 30

VRawInputs == { 0, 1, 27, 28 }
ChainIdInputs == { None } \cup { Some(c) : c \in 0..MaxChainId } \cup { Some(1337) }

\* A to_eth_v(v_raw, chain_id) call about to be made: ret is empty until it returns.
KeysInit ==
    /\ EnvInit /\ BlobIdle /\ ClientIdle /\ AbiIdle
    /\ \E v_raw \in VRawInputs, chain_id \in ChainIdInputs :
         eth_v_call = << [v_raw |-> v_raw, chain_id |-> chain_id, ret |-> << >>] >>

ToEthV ==
    /\ eth_v_call # << >> /\ eth_v_call[1].ret = << >>
    /\ eth_v_call' = << [eth_v_call[1] EXCEPT
                           !.ret = << to_eth_v(eth_v_call[1].v_raw, eth_v_call[1].chain_id) >>] >>
    /\ UNCHANGED << env_vars, blob_vars, client_vars, abi_vars >>

KeysNext == ToEthV

SpecKeys == KeysInit /\ [][KeysNext]_vars

\* ------------------------------------------------------- blob.py on its own
MaxCommitment == 3

\* Strings of 0, 6 and BLOB_FULL_SIZE_BYTES - 2 .. BLOB_FULL_SIZE_BYTES + 1
\* ASCII characters, each also with one two-byte character (U+00E9) appended.
InputLengths ==
    { 0, 6 } \cup { BLOB_FULL_SIZE_BYTES + d : d \in -2..1 }
InputDataInputs ==
    { << Run(49, n) >> : n \in InputLengths }
        \cup { << Run(49, n), Run(233, 1) >> : n \in InputLengths }
\* 48-byte KZG commitments
Commitment(k) == [i \in 1..48 |-> IF i = 48 THEN k ELSE 192]
CommitmentInputs == { Commitment(k) : k \in 1..MaxCommitment }

\* A prepare_blob_data call and a kzg_to_versioned_hash call about to be made.
BlobInit ==
    /\ EnvInit /\ KeysIdle /\ ClientIdle /\ AbiIdle
    /\ \E s \in InputDataInputs :
         blob_call = << [input_data |-> s, done |-> FALSE, ret |-> << >>, exc |-> << >>] >>
    /\ \E c \in CommitmentInputs :
         vh_call = << [kzg_commitment |-> c, ret |-> << >>] >>
    /\ blob_module = ModuleStart

\* with open(trusted_setup_location, 'w') as fl: fl.write(requests.get(url).text)
\* The request raises, or returns a body: the parameter file or something else.
Download ==
    /\ blob_module.pc = "download"
    /\ \E response \in DownloadInputs :
         blob_module' =
             [blob_module EXCEPT !.pc = module_next("download", response.exc),
                                 !.exc = response.exc,
                                 !.trusted_setup = response.ret]
    /\ UNCHANGED << client_vars, abi_vars, env_vars, keys_vars, blob_call, vh_call >>

\* kzg_settings = load_trusted_setup(trusted_setup_location, 6)
LoadTrustedSetup ==
    /\ blob_module.pc = "load"
    /\ LET res == load_trusted_setup(blob_module.trusted_setup)
       IN  blob_module' =
               [blob_module EXCEPT !.pc = module_next("load", res.exc),
                                   !.exc = res.exc,
                                   !.kzg_settings = IF res.exc = << >> THEN res.ret ELSE @,
                                   !.loads = IF res.exc = << >> THEN @ + 1 ELSE @]
    /\ UNCHANGED << client_vars, abi_vars, env_vars, keys_vars, blob_call, vh_call >>

\* padded_blob_bytes = prepare_blob_data('123456')
ModulePrepareBlobData ==
    /\ blob_module.pc = "prepare_blob_data"
    /\ LET res == prepare_blob_data([i \in 1..6 |-> Run(48 + i, 1)])
       IN  blob_module' =
               [blob_module EXCEPT !.pc = module_next("prepare_blob_data", res.exc),
                                   !.exc = res.exc,
                                   !.padded_blob_bytes = res.ret]
    /\ UNCHANGED << client_vars, abi_vars, env_vars, keys_vars, blob_call, vh_call >>

\* The ckzg call at module level that comes next: blob_to_kzg_commitment,
\* compute_blob_kzg_proof, verify_blob_kzg_proof, each reading kzg_settings.
CkzgCall ==
    /\ blob_module.pc \in { "blob_to_kzg_commitment", "compute_blob_kzg_proof",
                            "verify_blob_kzg_proof" }
    /\ blob_module' =
           [blob_module EXCEPT
               !.pc = module_next(blob_module.pc, << >>),
               !.ckzg_calls = Append(@, [fn |-> blob_module.pc,
                                         kzg_settings |-> blob_module.kzg_settings,
                                         loads |-> blob_module.loads])]
    /\ UNCHANGED << client_vars, abi_vars, env_vars, keys_vars, blob_call, vh_call >>

\* The functions of blob.py can be called once its import has completed.
PrepareBlobData ==
    /\ blob_module.pc = "imported"
    /\ blob_call # << >> /\ ~blob_call[1].done
    /\ LET res == prepare_blob_data(blob_call[1].input_data)
       IN  blob_call' = << [blob_call[1] EXCEPT !.done = TRUE, !.ret = res.ret,
                                                !.exc = res.exc] >>
    /\ UNCHANGED << client_vars, abi_vars, env_vars, keys_vars, vh_call, blob_module >>

KzgToVersionedHash ==
    /\ blob_module.pc = "imported"
    /\ vh_call # << >> /\ vh_call[1].ret = << >>
    /\ vh_call' = << [vh_call[1] EXCEPT
                        !.ret = << kzg_to_versioned_hash(vh_call[1].kzg_commitment) >>] >>
    /\ UNCHANGED << client_vars, abi_vars, env_vars, keys_vars, blob_call, blob_module >>

BlobNext ==
    \/ Download
    \/ LoadTrustedSetup
    \/ ModulePrepareBlobData
    \/ CkzgCall
    \/ PrepareBlobData
    \/ KzgToVersionedHash

SpecBlob == BlobInit /\ [][BlobNext]_vars

\* ------------------------------------------------------------------ ec.py
\* One Client used by several callers at once. Each call is a sequence of
\* requests to the node (web3); between two requests of one call any other
\* call may run.
MaxClientCalls == 2

\* The requests a method makes, in program order, then its return.
client_steps(method) ==
    CASE method = "send_transaction" ->
             << "get_transaction_count", "sign_transaction", "send_raw_transaction",
                "wait_for_transaction_receipt", "return" >>
      [] method \in { "deploy_contract", "transact_function" } ->
             << "get_transaction_count", "build_transaction", "sign_transaction",
                "send_raw_transaction", "wait_for_transaction_receipt", "return" >>
      [] method = "send_signed_raw_transaction" ->
             << "send_raw_transaction", "wait_for_transaction_receipt", "return" >>

\* Mutant of client_next: a request that raised is made again.
client_next_retries(method, step, exc) ==
    IF exc # << >> THEN step
    ELSE IF step = "return" THEN "returned"
    ELSE LET k == CHOOSE i \in 1..Len(client_steps(method)) : client_steps(method)[i] = step
         IN  client_steps(method)[k + 1]

\* Where a call goes after a step: no method of Client catches an exception,
\* so one that a request raises leaves the call.
client_next(method, step, exc) ==
    IF exc # << >> THEN "raised"
    ELSE IF step = "return" THEN "returned"
    ELSE LET k == CHOOSE i \in 1..Len(client_steps(method)) : client_steps(method)[i] = step
         IN  client_steps(method)[k + 1]

\* The call c after it has run step, which raised exc or nothing.
advance(c, step, exc) ==
    [c EXCEPT !.steps = Append(@, step), !.exc = exc,
              !.pc = client_next(c.method, step, exc)]

\* What a request may do besides succeeding.
Outcomes(error) == { << >>, << error >> }

\* client.send_transaction(...), .deploy_contract(...), .transact_function(...) or
\* .send_signed_raw_transaction(raw_tx), raw_tx signed elsewhere with some nonce.
ClientCall ==
    /\ Len(client_calls) < MaxClientCalls
    /\ \E method \in { "send_transaction", "deploy_contract", "transact_function",
                       "send_signed_raw_transaction" } :
         \E raw_nonce \in (IF method = "send_signed_raw_transaction" THEN {0, 1} ELSE {0}) :
           client_calls' = Append(client_calls,
               [method |-> method, pc |-> client_steps(method)[1], steps |-> << >>,
                overlaps |-> \E l \in 1..Len(client_calls) :
                                client_calls[l].pc \notin { "returned", "raised" },
                nonce |-> << >>,
                raw |-> IF method = "send_signed_raw_transaction"
                        THEN << [nonce |-> raw_nonce] >> ELSE << >>,
                tx_hash |-> << >>, receipt |-> << >>, ret |-> << >>, exc |-> << >>])
    /\ UNCHANGED << node, env_vars, keys_vars, blob_vars, abi_vars >>

\* nonce = self.w3.eth.get_transaction_count(self.keys.address, block_identifier='pending')
GetTransactionCount ==
    /\ \E k \in 1..Len(client_calls), exc \in Outcomes("ConnectionError") :
         /\ client_calls[k].pc = "get_transaction_count"
         /\ client_calls' =
                [client_calls EXCEPT ![k] =
                    [advance(@, "get_transaction_count", exc) EXCEPT
                        !.nonce = IF exc = << >> THEN << node.count >> ELSE << >>]]
    /\ UNCHANGED << node, env_vars, keys_vars, blob_vars, abi_vars >>

\* contract...build_transaction({'from': ..., 'nonce': nonce, 'gas': gas, 'value': value})
BuildTransaction ==
    /\ \E k \in 1..Len(client_calls), exc \in Outcomes("ContractLogicError") :
         /\ client_calls[k].pc = "build_transaction"
         /\ client_calls' = [client_calls EXCEPT ![k] = advance(@, "build_transaction", exc)]
    /\ UNCHANGED << node, env_vars, keys_vars, blob_vars, abi_vars >>

\* signed_txn = self.w3.eth.account.sign_transaction(transaction, self.keys.priv_key)
SignTransaction ==
    /\ \E k \in 1..Len(client_calls), exc \in Outcomes("TypeError") :
         /\ client_calls[k].pc = "sign_transaction"
         /\ client_calls' =
                [client_calls EXCEPT ![k] =
                    [advance(@, "sign_transaction", exc) EXCEPT
                        !.raw = IF exc = << >> THEN << [nonce |-> client_calls[k].nonce[1]] >>
                                ELSE << >>]]
    /\ UNCHANGED << node, env_vars, keys_vars, blob_vars, abi_vars >>

\* tx_hash = self.w3.eth.send_raw_transaction(raw_transaction)
\* The request does not reach the node, or the node takes the transaction
\* (next nonce: pending; later nonce: queued; nonce of a pending transaction:
\* replaces it), or the node refuses it (nonce already used).
SendRawTransaction ==
    /\ \E k \in 1..Len(client_calls) :
         /\ client_calls[k].pc = "send_raw_transaction"
         /\ LET n == client_calls[k].raw[1].nonce
                h == [tx |-> k]
            IN  \E result \in { "unreachable" } \cup
                              (IF n = node.count THEN { "pending" }
                               ELSE IF n > node.count THEN { "queued" }
                               ELSE { "replaced", "refused" }) :
                  LET exc == CASE result = "unreachable" -> << "ConnectionError" >>
                               [] result = "refused" -> << "Web3RPCError" >>
                               [] OTHER -> << >>
                  IN  /\ client_calls' =
                             [client_calls EXCEPT ![k] =
                                 [advance(@, "send_raw_transaction", exc) EXCEPT
                                     !.tx_hash = IF exc = << >> THEN << h >> ELSE << >>]]
                      /\ node' =
                             IF result = "unreachable" THEN node
                             ELSE [count |-> IF result = "pending" THEN node.count + 1
                                             ELSE node.count,
                                   sent |-> Append(node.sent,
                                               [call |-> k, method |-> client_calls[k].method,
                                                nonce |-> n, tx_hash |-> h,
                                                result |-> result])]
    /\ UNCHANGED << env_vars, keys_vars, blob_vars, abi_vars >>

\* receipt = self.w3.eth.wait_for_transaction_receipt(tx_hash)
WaitForTransactionReceipt ==
    /\ \E k \in 1..Len(client_calls), exc \in Outcomes("TimeExhausted") :
         /\ client_calls[k].pc = "wait_for_transaction_receipt"
         /\ client_calls' =
                [client_calls EXCEPT ![k] =
                    [advance(@, "wait_for_transaction_receipt", exc) EXCEPT
                        !.receipt = IF exc = << >>
                                    THEN << [transactionHash |-> client_calls[k].tx_hash[1]] >>
                                    ELSE << >>]]
    /\ UNCHANGED << node, env_vars, keys_vars, blob_vars, abi_vars >>

\* return receipt (deploy_contract: return receipt.contractAddress)
ClientReturn ==
    /\ \E k \in 1..Len(client_calls) :
         /\ client_calls[k].pc = "return"
         /\ client_calls' =
                [client_calls EXCEPT ![k] =
                    [advance(@, "return", << >>) EXCEPT !.ret = client_calls[k].receipt]]
    /\ UNCHANGED << node, env_vars, keys_vars, blob_vars, abi_vars >>

ClientNext ==
    \/ ClientCall
    \/ GetTransactionCount
    \/ BuildTransaction
    \/ SignTransaction
    \/ SendRawTransaction
    \/ WaitForTransactionReceipt
    \/ ClientReturn

SpecClient == Init /\ [][ClientNext]_vars

\* ----------------------------------------------------------------- abi.py
\* A Python dict is PyDict(record), a list PyList(sequence). A str built by
\* flatten_type_def is kept as the sequence of its pieces: type names, "(",
\* "," and ")".
PyDict(d) == [t |-> "dict", v |-> d]

\* key in item: a key of a dict, an element of a list.
py_contains(item, key) ==
    IF item.t = "dict" THEN key \in DOMAIN item.v
    ELSE \E i \in 1..Len(item.v) : item.v[i].t = "str" /\ item.v[i].v = key

\* item[key] for a str key: a list takes integer indices only.
py_getitem(item, key) ==
    IF item.t = "dict"
    THEN IF key \in DOMAIN item.v THEN [ret |-> << item.v[key] >>, exc |-> << >>]
         ELSE [ret |-> << >>, exc |-> << "KeyError" >>]
    ELSE [ret |-> << >>, exc |-> << "TypeError" >>]

\* ','.join(flatten_type_def(x) for x in xs): the first exception raised by an
\* element leaves the join.
RECURSIVE flatten_type_def(_)
RECURSIVE flatten_join(_)
flatten_join(xs) ==
    IF xs = << >> THEN [ret |-> << << >> >>, exc |-> << >>]
    ELSE LET head == flatten_type_def(Head(xs))
             rest == flatten_join(Tail(xs))
         IN  IF head.exc # << >> THEN head
             ELSE IF rest.exc # << >> THEN rest
             ELSE [ret |-> << head.ret[1] \o (IF Tail(xs) = << >> THEN << >> ELSE << "," >>)
                                 \o rest.ret[1] >>,
                   exc |-> << >>]

flatten_type_def(item) ==
    IF py_contains(item, "components")
    THEN LET joined == flatten_join(item.v.components.v)
         IN  IF joined.exc # << >> THEN joined
             ELSE [ret |-> << << "(" >> \o joined.ret[1] \o << ")" >> >>, exc |-> << >>]
    ELSE LET type == py_getitem(item, "type")
         IN  IF type.exc # << >> THEN type
             ELSE [ret |-> << << type.ret[1] >> >>, exc |-> << >>]

\* get_type_def_from_encode with filter_func = lambda item: item['name'] == name
\* and mapper_func = lambda item: item[key]: the first match, mapped, flattened;
\* next() on nothing raises StopIteration.
get_type_def_from_encode(abi_json, name, key) ==
    LET matches == SelectSeq(abi_json, LAMBDA item : item.v.name = name)
    IN  IF matches = << >> THEN [ret |-> << >>, exc |-> << "StopIteration" >>]
        ELSE flatten_type_def(matches[1].v[key])

\* --------------------------------------------------------- abi.py on its own
MaxDepth == 2

BasicTypes == { "uint256", "address" }
SeqsUpTo(S, n) == UNION { [1..k -> S] : k \in 0..n }

\* Type definitions nested to depth d: basic ones, and tuples of up to two
\* components of depth d - 1.
RECURSIVE TypeDefs(_)
TypeDefs(d) ==
    IF d = 0 THEN { PyDict([type |-> t]) : t \in BasicTypes }
    ELSE TypeDefs(d - 1) \cup
         { PyDict([type |-> "tuple", components |-> PyList(cs)]) :
               cs \in SeqsUpTo(TypeDefs(d - 1), 2) }

\* Parameter lists, as ABI items hold them under 'inputs'.
ParamLists == { PyList(ps) : ps \in SeqsUpTo(TypeDefs(MaxDepth - 1), 2) }

\* An ABI of two functions, f with the given inputs and g with none.
AbiJson(params) ==
    << PyDict([type |-> "function", name |-> "g", inputs |-> PyList(<< >>),
               input |-> PyDict([type |-> "uint256"])]),
       PyDict([type |-> "function", name |-> "f", inputs |-> params,
               input |-> IF params.v = << >> THEN PyDict([type |-> "uint256"])
                         ELSE params.v[1]]) >>

\* A call about to be made: flatten_type_def on a dict or on a list, or
\* get_type_def_from_encode with a mapper giving the 'inputs' list.
AbiInit ==
    /\ EnvInit /\ KeysIdle /\ BlobIdle /\ ClientIdle
    /\ \/ \E item \in TypeDefs(MaxDepth) \cup ParamLists :
            abi_call = << [fn |-> "flatten_type_def", item |-> item, done |-> FALSE,
                           ret |-> << >>, exc |-> << >>] >>
       \/ \E params \in ParamLists, name \in { "f", "h" }, key \in { "inputs", "input" } :
            abi_call = << [fn |-> "get_type_def_from_encode", abi_json |-> AbiJson(params),
                           name |-> name, key |-> key, done |-> FALSE,
                           ret |-> << >>, exc |-> << >>] >>

FlattenTypeDef ==
    /\ abi_call # << >> /\ ~abi_call[1].done
    /\ abi_call[1].fn = "flatten_type_def"
    /\ LET res == flatten_type_def(abi_call[1].item)
       IN  abi_call' = << [abi_call[1] EXCEPT !.done = TRUE, !.ret = res.ret,
                                              !.exc = res.exc] >>
    /\ UNCHANGED << env_vars, keys_vars, blob_vars, client_vars >>

GetTypeDefFromEncode ==
    /\ abi_call # << >> /\ ~abi_call[1].done
    /\ abi_call[1].fn = "get_type_def_from_encode"
    /\ LET res == get_type_def_from_encode(abi_call[1].abi_json, abi_call[1].name,
                                           abi_call[1].key)
       IN  abi_call' = << [abi_call[1] EXCEPT !.done = TRUE, !.ret = res.ret,
                                              !.exc = res.exc] >>
    /\ UNCHANGED << env_vars, keys_vars, blob_vars, client_vars >>

AbiNext ==
    \/ FlattenTypeDef
    \/ GetTypeDefFromEncode

SpecAbi == AbiInit /\ [][AbiNext]_vars

\* =============================================================== claims
\* The ordered unsigned field lists and type tags as the specification states
\* them (section 4.4), written over the fields of an envelope object o.
BaseFieldList(o) ==
    << PyInt(o.tx_params.chain_id), PyInt(o.tx_params.nonce), PyInt(o.tx_params.gas_tip),
       PyInt(o.tx_params.gas_fee), PyInt(o.tx_params.gas), PyBytes(o.tx_params.to),
       PyInt(o.tx_params.value), PyBytes(o.tx_params.data), PyList(o.acc_list) >>

BlobFieldList(o) ==
    BaseFieldList(o) \o << PyInt(o.blob_fee_cap), bytes_list(o.blob_hashes) >>

SetCodeFieldList(o) ==
    BaseFieldList(o) \o << PyList(o.set_code_auth_list) >>

StatedFieldList(o) == IF o.class = "BlobTx" THEN BlobFieldList(o) ELSE SetCodeFieldList(o)
StatedTag(o) == IF o.class = "BlobTx" THEN << 3 >> ELSE << 4 >>
SigList(sig) == << PyInt(sig.v), PyInt(sig.r), PyInt(sig.s) >>

\* The bytes a hash() call fed to Keccak.
Preimage(digest) == digest[1].keccak256

\* C1: every BlobTx.hash() call hashes the tag 0x03 followed by the canonical
\* encoding of exactly the eleven fields chain_id, nonce, gas_tip_cap,
\* gas_fee_cap, gas_limit, to, value, data, access_list, blob_fee_cap,
\* blob_versioned_hashes, in that order.
C1_BlobSigningPayload ==
    \A i \in 1..Len(hash_log) :
        hash_log[i].before.class = "BlobTx" =>
            /\ Len(BlobFieldList(hash_log[i].before)) = 11
            /\ Preimage(hash_log[i].ret) =
                   << 3 >> \o rlp_encode(PyList(BlobFieldList(hash_log[i].before)))

C1_Witness ==
    \E i \in 1..Len(hash_log) :
        /\ hash_log[i].before.class = "BlobTx"
        /\ Len(hash_log[i].before.blob_hashes) = 3
        /\ hash_log[i].before.acc_list # << >>
        /\ hash_log[i].before.tx_params.value = 5

\* C2: every SetCodeTx.hash() call hashes the tag 0x04 followed by the canonical
\* encoding of exactly the ten fields chain_id, nonce, gas_tip_cap, gas_fee_cap,
\* gas_limit, to, value, data, access_list, authorization_list, in that order.
C2_SetCodeSigningPayload ==
    \A i \in 1..Len(hash_log) :
        hash_log[i].before.class = "SetCodeTx" =>
            /\ Len(SetCodeFieldList(hash_log[i].before)) = 10
            /\ Preimage(hash_log[i].ret) =
                   << 4 >> \o rlp_encode(PyList(SetCodeFieldList(hash_log[i].before)))

C2_Witness ==
    \E i \in 1..Len(hash_log) :
        /\ hash_log[i].before.class = "SetCodeTx"
        /\ Len(hash_log[i].before.set_code_auth_list) = 2
        /\ hash_log[i].before.acc_list # << >>
        /\ hash_log[i].before.tx_params.value = 5

\* C3: every encode_with_sig(v, r, s) call returns TYPE_TAG || encode(F ++ [v, r, s]),
\* the serialization itself, where TYPE_TAG || encode(F) is what every hash() call
\* on the same envelope value fed to the hash.
C3_SignedOutput ==
    \A j \in 1..Len(enc_log) :
        LET e == enc_log[j]
        IN  /\ e.ret = StatedTag(e.self)
                         \o rlp_encode(PyList(StatedFieldList(e.self) \o SigList(e.sig)))
            /\ \A i \in 1..Len(hash_log) :
                   hash_log[i].before = e.self =>
                       Preimage(hash_log[i].ret) =
                           StatedTag(e.self) \o rlp_encode(PyList(StatedFieldList(e.self)))

C3_Witness ==
    \E j \in 1..Len(enc_log), i \in 1..Len(hash_log) :
        /\ hash_log[i].before = enc_log[j].self
        /\ enc_log[j].self.class = "BlobTx"
        /\ enc_log[j].sig.v = 0

\* C4: hash() calls on an envelope whose fields the caller has not changed in
\* between return the same bytes, and a hash() call leaves every field as it was.
C4_HashDeterministic ==
    /\ \A i \in 1..Len(hash_log) : hash_log[i].after = hash_log[i].before
    /\ \A i, j \in 1..Len(hash_log) :
           hash_log[i].mutations = hash_log[j].mutations => hash_log[i].ret = hash_log[j].ret

C4_Witness ==
    \E i, j \in 1..Len(hash_log) :
        i < j /\ hash_log[i].mutations = hash_log[j].mutations

\* C5 as stated: hash() returns the tag byte followed by the hash of the
\* canonical encoding of the field list (the tag outside the hashed input).
C5_TagOutsideHash ==
    \A i \in 1..Len(hash_log) :
        hash_log[i].ret = StatedTag(hash_log[i].before)
                            \o keccak(rlp_encode(PyList(StatedFieldList(hash_log[i].before))))

\* C5 amended: hash() returns the bare digest of (tag byte followed by the
\* canonical encoding of the field list): the tag is the first hashed byte and
\* nothing is prepended to the digest.
C5_TagInsideHash ==
    \A i \in 1..Len(hash_log) :
        hash_log[i].ret = keccak(StatedTag(hash_log[i].before)
                            \o rlp_encode(PyList(StatedFieldList(hash_log[i].before))))

C5_Witness ==
    \E i \in 1..Len(hash_log) :
        /\ hash_log[i].before.class = "SetCodeTx"
        /\ hash_log[i].before.set_code_auth_list # << >>

\* C6: the signed byte form is never obtained for an envelope whose signing
\* hash has not been computed first (Unsigned -> HashComputed -> Signed).
C6_NoSignedFormBeforeHash ==
    \A j \in 1..Len(enc_log) : enc_log[j].hashes > 0

\* C7: the field values encode_with_sig serializes are the field values the
\* preceding hash() call hashed, whatever the caller did in between.
C7_SerializedEqualsHashed ==
    \A j \in 1..Len(enc_log) :
        enc_log[j].hashes > 0 => enc_log[j].self = hash_log[enc_log[j].hashes].before

\* C8: the digest handed to the signing function for an authorization is
\* hash(0x05 || encode([chain_id, address, nonce])); 0x05 is none of the
\* transaction type tags, so its pre-image differs from that of every envelope
\* signing hash.
C8_AuthDigestDomainSeparated ==
    \A k \in 1..Len(auth_calls) :
        LET a == auth_calls[k]
            digest == a.signer_calls[1][1]
        IN  /\ digest = keccak(<< 5 >> \o rlp_encode(PyList(
                            << PyInt(a.chain_id), PyBytes(a.addr), PyInt(a.nonce) >>)))
            /\ Preimage(digest)[1] \notin {2, 3, 4}
            /\ \A i \in 1..Len(hash_log) :
                   /\ Preimage(hash_log[i].ret)[1] # Preimage(digest)[1]
                   /\ Preimage(hash_log[i].ret) # Preimage(digest)

C8_Witness ==
    /\ auth_calls # << >>
    /\ \E i \in 1..Len(hash_log) : hash_log[i].before.class = "SetCodeTx"

\* C9: each record of the authorization list is [chain_id, address, nonce, v, r, s]
\* with (v, r, s) exactly what the signing function returned for it.
C9_RecordCarriesSignerV ==
    (tx # << >> /\ tx[1].class = "SetCodeTx") =>
        \A i \in 1..Len(built(auth_calls)) :
            LET o == built(auth_calls)[i]
            IN  rlp_encode(tx[1].set_code_auth_list[i]) =
                    rlp_encode(PyList(<< PyInt(o.chain_id), PyBytes(o.addr), PyInt(o.nonce),
                                         PyInt(o.v), PyInt(o.r), PyInt(o.s) >>))

\* C10: one SetCodeAuthorization(...) call invokes the signing function exactly
\* once, with the digest as its only argument; if the signing function raises,
\* that exception leaves the call and no authorization object is built.
C10_SignerCalledOnce ==
    \A k \in 1..Len(auth_calls) :
        LET a == auth_calls[k]
        IN  /\ Len(a.signer_calls) = 1
            /\ Len(a.signer_calls[1]) = 1
            /\ Len(a.signer_calls[1][1]) = 1
            /\ a.exc = a.signer.exc
            /\ a.signer.exc # << >> => a.obj = << >>
            /\ a.signer.exc = << >> =>
                   /\ Len(a.obj) = 1
                   /\ SignedMessage(a.obj[1].v, a.obj[1].r, a.obj[1].s) = a.signer.ret[1]

C10_Witness ==
    \E k \in 1..Len(auth_calls) :
        /\ auth_calls[k].exc = << "SignerError" >>
        /\ auth_calls[k].obj = << >>

\* C11: two SetCodeAuthorization(...) calls with the same chain_id and address
\* and different nonces hand different digests to the signing function.
C11_NonceSeparatesDigests ==
    \A k, l \in 1..Len(auth_calls) :
        ( /\ auth_calls[k].chain_id = auth_calls[l].chain_id
          /\ auth_calls[k].addr = auth_calls[l].addr
          /\ auth_calls[k].nonce # auth_calls[l].nonce )
        => auth_calls[k].signer_calls[1][1] # auth_calls[l].signer_calls[1][1]

C11_Witness ==
    \E k, l \in 1..Len(auth_calls) :
        /\ auth_calls[k].chain_id = auth_calls[l].chain_id
        /\ auth_calls[k].addr = auth_calls[l].addr
        /\ auth_calls[k].nonce # auth_calls[l].nonce

\* The wire items of the lists as the caller supplied them to the constructor:
\* one [address, [storage keys]] item per access tuple, one byte string per
\* versioned hash, one six-item record per authorization, position by position.
SuppliedTuple(at) ==
    PyList(<< PyBytes(at.addr),
              PyList([i \in 1..Len(at.storage_keys) |-> PyBytes(at.storage_keys[i])]) >>)

SuppliedAuthRecord(a) ==
    PyList(<< PyInt(a.chain_id), PyBytes(a.addr), PyInt(a.nonce), PyStr(<< 1 >>),
              PyInt(a.r), PyInt(a.s) >>)

\* The field list of envelope o with its lists taken from the constructor call;
\* tuples the caller appended to the access list afterwards follow the supplied ones.
SuppliedFieldList(o) ==
    LET c == ctor[1]
        access == [i \in 1..Len(c.access) |-> SuppliedTuple(c.access[i])]
                      \o SubSeq(o.acc_list, Len(c.access) + 1, Len(o.acc_list))
    IN  << PyInt(o.tx_params.chain_id), PyInt(o.tx_params.nonce), PyInt(o.tx_params.gas_tip),
           PyInt(o.tx_params.gas_fee), PyInt(o.tx_params.gas), PyBytes(o.tx_params.to),
           PyInt(o.tx_params.value), PyBytes(o.tx_params.data), PyList(access) >>
        \o (IF o.class = "BlobTx"
            THEN << PyInt(o.blob_fee_cap),
                    PyList([i \in 1..Len(c.blob_hashes) |-> PyBytes(c.blob_hashes[i])]) >>
            ELSE << PyList([i \in 1..Len(c.auths) |-> SuppliedAuthRecord(c.auths[i])]) >>)

\* C12: the hashed payload and the signed output carry the authorization
\* records, the versioned hashes and the storage keys of each access tuple in
\* exactly the order the caller supplied them: none reordered, merged or dropped.
C12_ListsInSuppliedOrder ==
    /\ \A i \in 1..Len(hash_log) :
           Preimage(hash_log[i].ret) =
               StatedTag(hash_log[i].before)
                   \o rlp_encode(PyList(SuppliedFieldList(hash_log[i].before)))
    /\ \A j \in 1..Len(enc_log) :
           enc_log[j].ret =
               StatedTag(enc_log[j].self)
                   \o rlp_encode(PyList(SuppliedFieldList(enc_log[j].self)
                                            \o SigList(enc_log[j].sig)))

C12_Witness ==
    /\ hash_log # << >> /\ enc_log # << >>
    /\ ctor # << >> /\ ctor[1].class = "SetCodeTx"
    /\ Len(ctor[1].auths) = 2
    /\ ctor[1].auths[1].nonce # ctor[1].auths[2].nonce
    /\ \E k \in 1..Len(ctor[1].access) :
           \E m, n \in 1..Len(ctor[1].access[k].storage_keys) :
               /\ m < n
               /\ ctor[1].access[k].storage_keys[m] = ctor[1].access[k].storage_keys[n]

\* The blob-hash case of C12: a supplied hash list with a repeated, unsorted entry.
C12_BlobCase ==
    /\ hash_log # << >> /\ enc_log # << >>
    /\ ctor # << >> /\ ctor[1].class = "BlobTx"
    /\ Len(ctor[1].blob_hashes) = 3
    /\ ctor[1].blob_hashes[1] = ctor[1].blob_hashes[3]

\* The byte length of a string's UTF-8 form: one byte per code point below
\* U+0080, two per code point below U+0800.
RECURSIVE ByteLength(_)
ByteLength(s) ==
    IF s = << >> THEN 0
    ELSE Head(s).n * (IF Head(s).ch < 128 THEN 1 ELSE 2) + ByteLength(Tail(s))

\* C13: for an input of at most 131072 bytes prepare_blob_data returns exactly
\* 131072 bytes: the input's bytes first, then zero bytes only.
C13_PaddedToBlobSize ==
    \A k \in 1..Len(blob_call) :
        LET call == blob_call[k]
            data == str_encode(call.input_data)
        IN  (call.done /\ ByteLength(call.input_data) <= 131072) =>
                /\ call.exc = << >>
                /\ call.ret # << >>
                /\ Len(call.ret[1]) = 131072
                /\ Len(data) = ByteLength(call.input_data)
                /\ \A i \in 1..Len(data) : call.ret[1][i] = data[i]
                /\ \A i \in (Len(data) + 1)..131072 : call.ret[1][i] = 0

C13_Witness ==
    /\ blob_call # << >> /\ blob_call[1].done
    /\ ByteLength(blob_call[1].input_data) = 131072
    /\ blob_call[1].ret # << >>
    /\ blob_call[1].ret[1][131072] # 0

\* The empty-input case of C13: the result is 131072 zero bytes.
C13_EmptyCase ==
    /\ blob_call # << >> /\ blob_call[1].done
    /\ ByteLength(blob_call[1].input_data) = 0
    /\ blob_call[1].ret # << >>
    /\ blob_call[1].ret[1][1] = 0

\* C14: prepare_blob_data raises the oversized-input error (ValueError) and
\* returns nothing exactly when the encoded input is longer than 131072 bytes,
\* whatever its character count.
C14_OversizedRejected ==
    \A k \in 1..Len(blob_call) :
        LET call == blob_call[k]
        IN  call.done =>
                /\ (call.exc = << "ValueError" >>) <=> (ByteLength(call.input_data) > 131072)
                /\ call.exc # << >> => call.ret = << >>
                /\ call.exc = << >> => call.ret # << >>

C14_Witness ==
    /\ blob_call # << >> /\ blob_call[1].done
    /\ blob_call[1].exc = << "ValueError" >>
    /\ str_len(blob_call[1].input_data) <= 131072
    /\ ByteLength(blob_call[1].input_data) = 131073

\* C15: kzg_to_versioned_hash returns 32 bytes: the tag 0x01, whatever the
\* commitment, then bytes 1..31 of SHA-256(commitment); byte 0 of the digest is
\* not in the result.
C15_VersionedHashLayout ==
    \A k \in 1..Len(vh_call) :
        LET call == vh_call[k]
            digest == sha256(call.kzg_commitment)
        IN  call.ret # << >> =>
                /\ Len(call.ret[1]) = 32
                /\ call.ret[1][1] = 1
                /\ \A i \in 2..32 : call.ret[1][i] = digest[i] /\ call.ret[1][i] # digest[1]

C15_Witness ==
    /\ vh_call # << >> /\ vh_call[1].ret # << >>
    /\ vh_call[1].kzg_commitment[48] = 2
    /\ vh_call[1].ret[1][32] = [sha256 |-> vh_call[1].kzg_commitment, byte |-> 31]

\* C16: a BlobTx constructed with a sidecar, as examples/blob_tx.py constructs
\* it, is an envelope that owns the sidecar next to its versioned hashes.
C16_BlobOwnsSidecar ==
    (ctor # << >> /\ ctor[1].class = "BlobTx" /\ ctor[1].sidecar) =>
        /\ ctor[1].exc = << >>
        /\ tx # << >>
        /\ "sidecar" \in DOMAIN tx[1]

\* C17: with v_raw in {0, 1} and a chain id c >= 0, to_eth_v(v_raw, c) returns
\* 35 + 2 * c + v_raw.
C17_ChainIdFolded ==
    \A k \in 1..Len(eth_v_call) :
        LET call == eth_v_call[k]
        IN  ( /\ call.ret # << >>
              /\ call.v_raw \in {0, 1}
              /\ call.chain_id # << >>
              /\ call.chain_id[1] >= 0 )
            => call.ret[1] = 35 + 2 * call.chain_id[1] + call.v_raw

C17_Witness ==
    /\ eth_v_call # << >>
    /\ eth_v_call[1].ret # << >>
    /\ eth_v_call[1].v_raw = 1
    /\ eth_v_call[1].chain_id = << 1337 >>
    /\ eth_v_call[1].ret[1] = 2710

\* C18: with the chain id omitted, to_eth_v maps v_raw in {0, 1} to 27 + v_raw.
C18_UnboundIs27Or28 ==
    \A k \in 1..Len(eth_v_call) :
        LET call == eth_v_call[k]
        IN  ( /\ call.ret # << >>
              /\ call.v_raw \in {0, 1}
              /\ call.chain_id = << >> )
            => /\ call.ret[1] = 27 + call.v_raw
               /\ call.ret[1] \in {27, 28}

C21_LoadedBeforeUse ==
    /\ blob_module.loads <= 1
    /\ (blob_module.kzg_settings # << >>) <=> (blob_module.loads = 1)
    /\ \A k \in 1..Len(blob_module.ckzg_calls) :
           /\ blob_module.ckzg_calls[k].loads = 1
           /\ blob_module.ckzg_calls[k].kzg_settings # << >>
           /\ blob_module.ckzg_calls[k].kzg_settings = blob_module.kzg_settings
    /\ blob_module.pc = "failed" =>
           /\ blob_module.kzg_settings = << >>
           /\ blob_module.ckzg_calls = << >>

\* C21: kzg_settings is bound by one successful load and never rebound; every
\* commitment, proof and verify call is made after that load and reads its
\* result; an import whose download or load failed makes no such call.
C21_LoadedOnceBeforeUse ==
    /\ []C21_LoadedBeforeUse
    /\ [][blob_module.kzg_settings # << >> =>
             blob_module'.kzg_settings = blob_module.kzg_settings]_vars

C21_Witness ==
    /\ blob_module.pc = "imported"
    /\ Len(blob_module.ckzg_calls) = 3
    /\ blob_module.ckzg_calls[3].fn = "verify_blob_kzg_proof"
    /\ Len(blob_module.padded_blob_bytes[1]) = 131072

\* The failed-load case of C21.
C21_FailedLoadCase ==
    /\ blob_module.pc = "failed"
    /\ blob_module.trusted_setup = << "404: Not Found" >>
    /\ blob_module.exc = << "RuntimeError" >>

\* C22: no signing hash and no signed output is produced from an envelope that
\* was given an address that is not 20 bytes or a storage key or versioned hash
\* that is not 32 bytes: such a value is rejected when it is supplied.
C22_InvalidWidthRejected ==
    (hash_log # << >> \/ enc_log # << >>) =>
        /\ Len(tx[1].tx_params.to) = 20
        /\ \A k \in 1..Len(ctor[1].access) :
               /\ Len(ctor[1].access[k].addr) = 20
               /\ \A m \in 1..Len(ctor[1].access[k].storage_keys) :
                      Len(ctor[1].access[k].storage_keys[m]) = 32
        /\ ctor[1].class = "BlobTx" =>
               \A k \in 1..Len(ctor[1].blob_hashes) : Len(ctor[1].blob_hashes[k]) = 32
        /\ ctor[1].class = "SetCodeTx" =>
               \A k \in 1..Len(ctor[1].auths) : Len(ctor[1].auths[k].addr) = 20

\* A decoder for the canonical encoding, as a receiver of the signed bytes
\* would run it: a byte string decodes to PyBytes, a list to PyList of decoded
\* items. rlp_decode_at(d, i) is the item that starts at d[i] and the index
\* after it.
RECURSIVE big_endian_to_int(_)
big_endian_to_int(b) ==
    IF b = << >> THEN 0
    ELSE 256 * big_endian_to_int(SubSeq(b, 1, Len(b) - 1)) + b[Len(b)]

RECURSIVE rlp_decode_at(_, _)
RECURSIVE rlp_decode_list(_, _, _)
rlp_decode_list(d, i, end) ==
    IF i >= end THEN << >>
    ELSE LET r == rlp_decode_at(d, i)
         IN  << r.item >> \o rlp_decode_list(d, r.next, end)

rlp_decode_at(d, i) ==
    LET b0 == d[i]
    IN  CASE b0 < 128 -> [item |-> PyBytes(<< b0 >>), next |-> i + 1]
          [] b0 >= 128 /\ b0 < 184 ->
                 [item |-> PyBytes(SubSeq(d, i + 1, i + b0 - 128)), next |-> i + 1 + b0 - 128]
          [] b0 >= 184 /\ b0 < 192 ->
                 LET ll == b0 - 183
                     n == big_endian_to_int(SubSeq(d, i + 1, i + ll))
                 IN  [item |-> PyBytes(SubSeq(d, i + 1 + ll, i + ll + n)),
                      next |-> i + 1 + ll + n]
          [] b0 >= 192 /\ b0 < 248 ->
                 [item |-> PyList(rlp_decode_list(d, i + 1, i + 1 + b0 - 192)),
                  next |-> i + 1 + b0 - 192]
          [] b0 >= 248 ->
                 LET ll == b0 - 247
                     n == big_endian_to_int(SubSeq(d, i + 1, i + ll))
                 IN  [item |-> PyList(rlp_decode_list(d, i + 1 + ll, i + 1 + ll + n)),
                      next |-> i + 1 + ll + n]

\* The decoded item list of a signed output, its tag byte stripped.
Decoded(raw) == rlp_decode_at(Tail(raw), 1).item.v
AsInt(item) == big_endian_to_int(item.v)

\* The base fields, the lists and the signature read back from the item list.
ReadsBackBase(items, o) ==
    /\ AsInt(items[1]) = o.tx_params.chain_id
    /\ AsInt(items[2]) = o.tx_params.nonce
    /\ AsInt(items[3]) = o.tx_params.gas_tip
    /\ AsInt(items[4]) = o.tx_params.gas_fee
    /\ AsInt(items[5]) = o.tx_params.gas
    /\ items[6] = PyBytes(o.tx_params.to)
    /\ AsInt(items[7]) = o.tx_params.value
    /\ items[8] = PyBytes(o.tx_params.data)
    /\ items[9] = PyList(o.acc_list)

ReadsBackSig(items, sig) ==
    LET n == Len(items)
    IN  /\ AsInt(items[n - 2]) = sig.v
        /\ AsInt(items[n - 1]) = sig.r
        /\ AsInt(items[n]) = sig.s

\* Authorization record k read back against the authorization object it was
\* encoded from, v included or not.
ReadsBackAuth(rec, a, with_v) ==
    /\ rec.t = "list" /\ Len(rec.v) = 6
    /\ AsInt(rec.v[1]) = a.chain_id
    /\ rec.v[2] = PyBytes(a.addr)
    /\ AsInt(rec.v[3]) = a.nonce
    /\ with_v => AsInt(rec.v[4]) = a.v
    /\ AsInt(rec.v[5]) = a.r
    /\ AsInt(rec.v[6]) = a.s

ReadsBack(e, with_v) ==
    LET items == Decoded(e.ret)
        o == e.self
    IN  /\ << e.ret[1] >> = StatedTag(o)
        /\ rlp_decode_at(Tail(e.ret), 1).next = Len(e.ret)
        /\ Len(items) = (IF o.class = "BlobTx" THEN 14 ELSE 13)
        /\ ReadsBackBase(items, o)
        /\ ReadsBackSig(items, e.sig)
        /\ o.class = "BlobTx" =>
               /\ AsInt(items[10]) = o.blob_fee_cap
               /\ items[11] = bytes_list(o.blob_hashes)
        /\ o.class = "SetCodeTx" =>
               /\ Len(items[10].v) = Len(built(auth_calls))
               /\ \A k \in 1..Len(items[10].v) :
                      ReadsBackAuth(items[10].v[k], built(auth_calls)[k], with_v)

\* C23: the signed output of a BlobTx or SetCodeTx, tag stripped and decoded,
\* gives back every input value: each field, each list element in order (for
\* an authorization its chain_id, address, nonce and the v, r, s its signer
\* returned) and the signature; and two encode_with_sig results that are the
\* same bytes come from the same field and signature values.
C23_RoundTrip ==
    /\ \A j \in 1..Len(enc_log) : ReadsBack(enc_log[j], TRUE)
    /\ \A i, j \in 1..Len(enc_log) :
           enc_log[i].ret = enc_log[j].ret =>
               enc_log[i].self = enc_log[j].self /\ enc_log[i].sig = enc_log[j].sig

\* What does hold of the round trip: everything is read back but the v of an
\* authorization, which is written as 1 whatever the signer returned.
C23_RoundTripButAuthV ==
    /\ \A j \in 1..Len(enc_log) : ReadsBack(enc_log[j], FALSE)
    /\ \A i, j \in 1..Len(enc_log) :
           enc_log[i].ret = enc_log[j].ret =>
               enc_log[i].self = enc_log[j].self /\ enc_log[i].sig = enc_log[j].sig

\* The transactions the client built itself (it fetched their nonce), in the
\* order they were sent to the node.
ClientBuilt(e) == e.method \in { "send_transaction", "deploy_contract", "transact_function" }

\* C24: whatever the interleaving of concurrent send_transaction,
\* deploy_contract and transact_function calls on one Client, the transactions
\* they broadcast carry pairwise different nonces, increasing in the order of
\* broadcast.
C24_NoncesUniqueIncreasing ==
    \A i, j \in 1..Len(node.sent) :
        (i < j /\ ClientBuilt(node.sent[i]) /\ ClientBuilt(node.sent[j])) =>
            node.sent[i].nonce < node.sent[j].nonce

\* The same statement for calls made one after the other (no call begins
\* while another is running) and no transaction signed elsewhere: it holds.
C24_SequentialCase ==
    (\A k \in 1..Len(client_calls) :
         ~client_calls[k].overlaps /\ ClientBuilt(client_calls[k]))
        => C24_NoncesUniqueIncreasing

\* The steps C25 names, in the order it states, for each method.
NamedOrder(method) ==
    IF method = "send_signed_raw_transaction"
    THEN << "send_raw_transaction", "wait_for_transaction_receipt", "return" >>
    ELSE << "get_transaction_count", "sign_transaction", "send_raw_transaction",
            "wait_for_transaction_receipt", "return" >>
Named(steps) == SelectSeq(steps, LAMBDA x : x # "build_transaction")
IsPrefix(a, b) == Len(a) <= Len(b) /\ a = SubSeq(b, 1, Len(a))

\* C25: in every send path of Client the steps run in the order fetch pending
\* nonce (when the client builds the transaction), sign, broadcast, wait for
\* receipt, return, each at most once; the receipt returned is the one for the
\* hash this call's broadcast returned; a step that fails ends the call: no
\* later step, no retry, nothing returned.
C25_FixedStepOrder ==
    \A k \in 1..Len(client_calls) :
        LET c == client_calls[k]
            mine == { i \in 1..Len(node.sent) : node.sent[i].call = k }
        IN  /\ IsPrefix(Named(c.steps), NamedOrder(c.method))
            /\ Cardinality(mine) <= 1
            /\ c.exc # << >> <=> c.pc = "raised"
            /\ c.pc = "raised" => c.ret = << >>
            /\ c.pc = "returned" =>
                   /\ Named(c.steps) = NamedOrder(c.method)
                   /\ c.ret # << >>
                   /\ c.ret[1].transactionHash = c.tx_hash[1]
                   /\ \E i \in mine : node.sent[i].tx_hash = c.tx_hash[1]

C25_Witness ==
    \E k, l \in 1..Len(client_calls) :
        /\ client_calls[k].method = "transact_function"
        /\ client_calls[k].pc = "returned"
        /\ client_calls[l].method = "send_signed_raw_transaction"
        /\ client_calls[l].exc = << "TimeExhausted" >>
        /\ client_calls[l].tx_hash # << >>

\* The flattened string C26 states: the bare type for an item without
\* components, "(" + comma-joined flattened components + ")" for an item with
\* components, and for a list of items the same over its elements.
RECURSIVE Flattened(_)
RECURSIVE CommaJoined(_)
CommaJoined(xs) ==
    IF xs = << >> THEN << >>
    ELSE IF Len(xs) = 1 THEN Flattened(xs[1])
    ELSE Flattened(xs[1]) \o << "," >> \o CommaJoined(Tail(xs))

Flattened(item) ==
    IF item.t = "list" THEN << "(" >> \o CommaJoined(item.v) \o << ")" >>
    ELSE IF "components" \in DOMAIN item.v
         THEN << "(" >> \o CommaJoined(item.v.components.v) \o << ")" >>
         ELSE << item.v.type >>

\* C26: flatten_type_def returns the flattened string for a type-definition
\* dictionary of any nesting depth and for a list of such dictionaries, and
\* get_type_def_from_encode with a mapper like item['inputs'] returns it for
\* the list: neither fails.
C26_FlattensDictsAndLists ==
    \A k \in 1..Len(abi_call) :
        LET call == abi_call[k]
        IN  (call.done /\ (call.fn = "get_type_def_from_encode" => call.name = "f")) =>
                /\ call.exc = << >>
                /\ call.ret # << >>
                /\ call.ret[1] = Flattened(IF call.fn = "flatten_type_def" THEN call.item
                                           ELSE call.abi_json[2].v[call.key])

\* What does hold: the statement for dictionaries, nested to any depth reached.
C26_DictCase ==
    \A k \in 1..Len(abi_call) :
        LET call == abi_call[k]
            item == IF call.fn = "flatten_type_def" THEN call.item
                    ELSE call.abi_json[2].v[call.key]
        IN  (call.done /\ (call.fn = "get_type_def_from_encode" => call.name = "f")) =>
                IF item.t = "dict"
                THEN call.exc = << >> /\ call.ret = << Flattened(item) >>
                ELSE call.exc = << "TypeError" >> /\ call.ret = << >>

====
